---- MODULE Spec2Model ----
(***************************************************************************)
(* Model of the conversation orchestration engine of learnliko             *)
(* (src/src/lib/global/conversation.ts).                                   *)
(*                                                                         *)
(* The module-level stores and `let` bindings of conversation.ts are the   *)
(* variables.  Every async function is cut at its `await`s: one action per *)
(* synchronous segment, the segment that follows the resolution (or the    *)
(* rejection) of the awaited collaborator call.  Each call of              *)
(* initializeConversationBot / submitUserReply is a task, numbered in the  *)
(* order of issue; each call of computeRecap is an entry of `recaps`.      *)
(***************************************************************************)
EXTENDS Integers, Sequences, FiniteSets, TLC

\* ---------------------------------------------------------------- bounds
MaxOps == 2        \* top-level operations (initialize / submit) issued in a run
MaxGoals == 2      \* learning goals declared by the conversation script
MaxInFlight == 2   \* operations in flight at once, where they may overlap
MaxFaults == 7     \* collaborator anomalies in a run that stresses one reply
MaxEvents == 1     \* resets and hints in a run of several operations

\* ------------------------------------------------------- program constants
MaxRetry == 5
DefaultMaxDialogueCount == 1000000

NULL == "null"
UNDEFINED == "undefined"
UserText == "hello"

VARIABLES
    history,                 \* store `history`: the Transcript Store
    conversationHistory,     \* store `conversationHistory`: the display history
    waitingForAIResponse,
    initializedConversation,
    transcribing,
    conversationFinished,
    isCheckConversationGoal,
    saveCurrentConversation,
    maxDialogueCount,
    currentGoal,
    gptHistory,              \* completion-history
    goalTracking,            \* GoalEntry list
    recapResult,             \* store `recapResult` (chatbox): the output slot,
                             \* <<>> for null and <<value>> for a RecapResult
    chatContext,             \* store `chatContext` (chatbox): the script
    tasks,                   \* the calls of initialize / submit, by issue number
    recaps,                  \* the calls of computeRecap, in order of invocation
    nextId,                  \* issue number of the next top-level operation
    epoch,                   \* number of resets so far
    events,                  \* collaborator anomalies, resets and hints so far
    hintOutcome,             \* how the last call of revealGoalHint settled
    limits                   \* the scenario explored

vars == <<history, conversationHistory, waitingForAIResponse,
          initializedConversation, transcribing, conversationFinished,
          isCheckConversationGoal, saveCurrentConversation, maxDialogueCount,
          currentGoal, gptHistory, goalTracking, recapResult, chatContext,
          tasks, recaps, nextId, epoch, events, hintOutcome, limits>>

stores == <<history, conversationHistory, waitingForAIResponse,
            initializedConversation, transcribing, conversationFinished,
            currentGoal, gptHistory, goalTracking>>

policy == <<isCheckConversationGoal, saveCurrentConversation, maxDialogueCount>>

\* what no step of initialize, submit or the recap writes: the bookkeeping of
\* the exploration and the outcome of revealGoalHint
budget == <<events, limits, hintOutcome>>

Ids == 1..(MaxOps + 2)

\* ------------------------------------------------------------ data shapes
\* HistoryItem
Turn(role, url, text) == [role |-> role, audioURL |-> url, transcription |-> text]

\* what an index outside the array reads: undefined
NoTurn == Turn(UNDEFINED, 0, UNDEFINED)

\* ConversationHistoryItem: exactly one of chat / endOfGoal / hint is set
ChatItem(role, url, text) ==
    [type |-> "chat", role |-> role, audioURL |-> url, transcription |-> text, n |-> 0]

EndOfGoalItem(n) ==
    [type |-> "endOfGoal", role |-> "", audioURL |-> 0, transcription |-> "", n |-> n]

HintItem(n) ==
    [type |-> "hint", role |-> "", audioURL |-> 0, transcription |-> "", n |-> n]

\* ChatMessage
Msg(role, content) == [role |-> role, content |-> content]

GoalEntry(g) == [goal |-> g, hintUsed |-> FALSE, lastDialogueIndex |-> 0]

\* a task that has not been issued, and the locals of botReply / submitUserReply
NoTask ==
    [kind |-> "none", pc |-> "idle", err |-> "none", outcome |-> "none",
     epoch |-> 0, hasMessage |-> FALSE, attempt |-> 0, data |-> "undefined",
     emotion |-> "", message |-> "", snap |-> <<>>, targetIndex |-> 0,
     chatCalls |-> 0, nulls |-> 0, badRun |-> 0, collabFailed |-> FALSE,
     replyStarted |-> FALSE, passed |-> FALSE]

InFlight(t) == t.pc \notin {"idle", "done", "error"}

DefaultPolicy == <<TRUE, TRUE, DefaultMaxDialogueCount>>

Policies == BOOLEAN \X BOOLEAN \X {1, DefaultMaxDialogueCount}

\* The runs explored.  Each scenario stresses some of the dimensions:
\*   retry    one operation, as many collaborator anomalies as MaxFaults;
\*   session  operations issued one after the other, with as many resets
\*            and hints as MaxEvents;
\*   overlap  operations issued while others are in flight, under the
\*            default policy;
\*   recap    a conversation long enough to complete every goal with a
\*            scored pair, the scoring collaborator answering differently
\*            from goal to goal, with hints, resets and scoring failures;
\*   repeat   a script of one goal and more operations than it needs, one
\*            at a time: initialization and submission repeated.
Scenarios ==
    {[name |-> "retry", ops |-> 1, inFlight |-> 1,
      events |-> MaxFaults, kinds |-> {"fault"},
      policies |-> Policies, intros |-> {"", "intro"},
      goals |-> 1..MaxGoals, overalls |-> {90}, scores |-> {90}, coins |-> {1}],
     [name |-> "session", ops |-> MaxOps, inFlight |-> 1,
      events |-> MaxEvents, kinds |-> {"reset", "hint"},
      policies |-> Policies, intros |-> {"", "intro"},
      goals |-> {MaxGoals}, overalls |-> {90}, scores |-> {90}, coins |-> {1}],
     [name |-> "overlap", ops |-> MaxOps, inFlight |-> MaxInFlight,
      events |-> 0, kinds |-> {},
      policies |-> {DefaultPolicy}, intros |-> {"intro"},
      goals |-> {MaxGoals}, overalls |-> {90}, scores |-> {90}, coins |-> {1}],
     [name |-> "recap", ops |-> MaxOps + 1, inFlight |-> 1,
      events |-> MaxEvents + 1, kinds |-> {"scoring", "hint", "reset"},
      policies |-> {DefaultPolicy}, intros |-> {"intro"},
      goals |-> {MaxGoals}, overalls |-> {90},
      scores |-> {0, 90, 100}, coins |-> {1}],
     [name |-> "repeat", ops |-> MaxOps + 2, inFlight |-> 1,
      events |-> 0, kinds |-> {},
      policies |-> {DefaultPolicy}, intros |-> {"intro"},
      goals |-> {1}, overalls |-> {90}, scores |-> {90}, coins |-> {1}]}

\* a call of computeRecap that has neither published nor rejected
RecapInFlight(rec) == rec.pc \notin {"done", "error"}

CanIssue ==
    /\ nextId <= limits.ops
    /\ Cardinality({id \in Ids : InFlight(tasks[id])})
         + Cardinality({r \in 1..Len(recaps) : RecapInFlight(recaps[r])})
       < limits.inFlight

\* a collaborator call settles abnormally
Event(kind) ==
    /\ kind \in limits.kinds
    /\ events < limits.events
    /\ events' = events + 1
    /\ UNCHANGED <<limits, hintOutcome>>

Fault == Event("fault")

\* the scoring collaborator rejects
ScoringFault == IF "scoring" \in limits.kinds THEN Event("scoring") ELSE Fault

\* a persistence call rejects: counted with the failures of the recap
PersistenceFault == ScoringFault

\* how a call of the persistence collaborator (graphqlClient, imported from
\* $lib/graphql at line 24) settles: it returns, or it fails and the awaited
\* promise rejects
PersistenceOutcomes == {"resolved", "rejected"}

\* ----------------------------------------------------------- the script
\* chatContext: the goals of the script (identified by their position), the
\* intro text, and the bot's current emotion
Contexts ==
    [nGoals : 1..MaxGoals, intro : {"", "intro"}, emotion : {"neutral"}]

\* ------------------------------------------------------------------ Init
Init ==
    /\ limits \in Scenarios
    /\ history = <<>>
    /\ conversationHistory = <<>>
    /\ waitingForAIResponse = FALSE
    /\ initializedConversation = FALSE
    /\ transcribing = FALSE
    /\ conversationFinished = FALSE
    /\ isCheckConversationGoal = TRUE
    /\ saveCurrentConversation = TRUE
    /\ maxDialogueCount = DefaultMaxDialogueCount
    /\ currentGoal = 0
    /\ gptHistory = <<>>
    /\ goalTracking = <<>>
    /\ recapResult = <<>>
    /\ chatContext \in Contexts
    /\ chatContext.intro \in limits.intros
    /\ chatContext.nGoals \in limits.goals
    /\ tasks = [id \in Ids |-> NoTask]
    /\ recaps = <<>>
    /\ nextId = 1
    /\ epoch = 0
    /\ events = 0
    /\ hintOutcome = "none"

\* --------------------------------------------------------- policy stores
\* The pretest page sets the exported policy stores before a conversation
\* starts: isCheckConversationGoal, saveCurrentConversation, maxDialogueCount.
Configure ==
    /\ nextId = 1
    /\ \E p \in limits.policies :
         /\ p # policy
         /\ isCheckConversationGoal' = p[1]
         /\ saveCurrentConversation' = p[2]
         /\ maxDialogueCount' = p[3]
    /\ UNCHANGED <<stores, recapResult, chatContext, tasks, recaps, nextId,
                   epoch, budget>>

\* ----------------------------------------------------------------- reset
resetConversationData ==
    /\ Event("reset")
    /\ currentGoal' = 0
    /\ transcribing' = FALSE
    /\ conversationFinished' = FALSE
    /\ initializedConversation' = FALSE
    /\ waitingForAIResponse' = FALSE
    /\ history' = <<>>
    /\ goalTracking' = <<>>
    /\ conversationHistory' = <<>>
    /\ gptHistory' = <<>>
    /\ epoch' = epoch + 1
    /\ UNCHANGED <<policy, recapResult, chatContext, tasks, recaps, nextId>>

\* -------------------------------------------------------------- botReply
\* botReply up to its first await: with a (truthy) message the first await is
\* synthesize, without one it is the first chat call.
BeginBotReply(t, message) ==
    IF message = ""
    THEN [t EXCEPT !.hasMessage = FALSE, !.replyStarted = TRUE,
                   !.data = "undefined", !.attempt = 0,
                   !.pc = "chat", !.chatCalls = 1]
    ELSE [t EXCEPT !.hasMessage = TRUE, !.replyStarted = TRUE,
                   !.message = message, !.pc = "synth"]

\* a rejection of botReply: initializeConversationBot awaits it, so the
\* rejection is the caller's; submitUserReply has already returned
Reject(t, err) ==
    [t EXCEPT !.pc = "error", !.err = err, !.snap = <<>>,
              !.outcome = IF t.kind = "init" THEN "error" ELSE t.outcome]

\* CatchTask with the retry limit off by one (`attempt++ > 5`)
CatchTask_OneMoreRetry(t) ==
    IF t.attempt > MaxRetry
    THEN IF t.data \in {"undefined", "null"}
         THEN Reject([t EXCEPT !.attempt = t.attempt + 1], "BotReplyFailed")
         ELSE [t EXCEPT !.attempt = t.attempt + 1, !.message = "raw",
                        !.pc = "synth"]
    ELSE [t EXCEPT !.attempt = t.attempt + 1, !.pc = "chat",
                   !.chatCalls = t.chatCalls + 1]

\* the catch block of the retry loop and what follows it
CatchTask(t) ==
    IF t.attempt >= MaxRetry
    THEN \* break, then `if (!data) throw`
         IF t.data \in {"undefined", "null"}
         THEN Reject([t EXCEPT !.attempt = t.attempt + 1], "BotReplyFailed")
         ELSE [t EXCEPT !.attempt = t.attempt + 1, !.message = "raw",
                        !.pc = "synth"]
    ELSE [t EXCEPT !.attempt = t.attempt + 1, !.pc = "chat",
                   !.chatCalls = t.chatCalls + 1]

CatchGpt(t, gpt) ==
    IF t.attempt >= MaxRetry
    THEN gpt
    ELSE Append(gpt, Msg("user", "Reply with provided JSON scheme"))

\* what JSON.parse and the emotion check make of a well-formed response
ParsedEmotion(resp) == IF resp = "ok" THEN "happy" ELSE "neutral"

ChatResponses == {"ok", "okNoEmotion", "null", "malformed", "fail"}

\* chat(gptHistory) settles: line 166-175 and the catch block
ChatRespond(id) ==
    LET t == tasks[id] IN
    /\ t.pc = "chat"
    /\ \E resp \in ChatResponses :
         \/ /\ resp \in {"ok", "okNoEmotion"}
            /\ IF resp = "ok" THEN UNCHANGED budget ELSE Fault
            /\ tasks' = [tasks EXCEPT ![id] =
                   [t EXCEPT !.data = "obj", !.emotion = ParsedEmotion(resp),
                             !.badRun = 0, !.pc = "adapt"]]
            /\ UNCHANGED gptHistory
         \/ /\ resp = "null"
            /\ Fault
            /\ tasks' = [tasks EXCEPT ![id] =
                   [t EXCEPT !.data = "null", !.badRun = 0,
                             !.nulls = t.nulls + 1,
                             !.chatCalls = t.chatCalls + 1]]
            /\ UNCHANGED gptHistory
         \/ /\ resp \in {"malformed", "fail"}
            /\ Fault
            /\ tasks' = [tasks EXCEPT ![id] =
                   [CatchTask(t) EXCEPT
                       !.badRun = IF resp = "malformed" THEN t.badRun + 1 ELSE 0]]
            /\ gptHistory' = CatchGpt(t, gptHistory)
    /\ UNCHANGED <<history, conversationHistory, waitingForAIResponse,
                   initializedConversation, transcribing, conversationFinished,
                   currentGoal, goalTracking, policy, recapResult, chatContext,
                   recaps, nextId, epoch>>

\* textAdaptor(data.message, targetLevel) resolves: line 175-180, 191
AdaptOk(id) ==
    LET t == tasks[id] IN
    /\ t.pc = "adapt"
    /\ chatContext' = [chatContext EXCEPT !.emotion = t.emotion]
    /\ gptHistory' = Append(gptHistory, Msg("assistant", "botResponse"))
    /\ tasks' = [tasks EXCEPT ![id] = [t EXCEPT !.message = "simple", !.pc = "synth"]]
    /\ UNCHANGED <<history, conversationHistory, waitingForAIResponse,
                   initializedConversation, transcribing, conversationFinished,
                   currentGoal, goalTracking, policy, recapResult,
                   recaps, nextId, epoch, budget>>

\* textAdaptor rejects: the rejection is thrown inside the try block
AdaptFail(id) ==
    LET t == tasks[id] IN
    /\ t.pc = "adapt"
    /\ tasks' = [tasks EXCEPT ![id] = [CatchTask(t) EXCEPT !.collabFailed = TRUE]]
    /\ gptHistory' = CatchGpt(t, gptHistory)
    /\ Fault
    /\ UNCHANGED <<history, conversationHistory, waitingForAIResponse,
                   initializedConversation, transcribing, conversationFinished,
                   currentGoal, goalTracking, policy, recapResult, chatContext,
                   recaps, nextId, epoch>>

\* synthesize resolves: the spread `...get(history)` of line 201 is evaluated
\* before the `await blobToBase64(audio)` of line 204
SynthOk(id) ==
    LET t == tasks[id] IN
    /\ t.pc = "synth"
    /\ tasks' = [tasks EXCEPT ![id] = [t EXCEPT !.snap = history, !.pc = "b64a"]]
    /\ UNCHANGED <<stores, policy, recapResult, chatContext, recaps, nextId,
                   epoch, budget>>

SynthFail(id) ==
    LET t == tasks[id] IN
    /\ t.pc = "synth"
    /\ tasks' = [tasks EXCEPT ![id] =
           Reject([t EXCEPT !.collabFailed = TRUE], "Collaborator")]
    /\ Fault
    /\ UNCHANGED <<stores, policy, recapResult, chatContext, recaps, nextId,
                   epoch>>

\* AppendAssistantTurn that puts the turn in the display history as well,
\* before the goal check
AppendAssistantTurn_BothStores(id) ==
    LET t == tasks[id] IN
    /\ t.pc = "b64a"
    /\ history' = Append(t.snap, Turn("assistant", id, t.message))
    /\ conversationHistory' =
           Append(conversationHistory, ChatItem("assistant", id, t.message))
    /\ tasks' = [tasks EXCEPT ![id] =
           IF ~t.hasMessage /\ isCheckConversationGoal
           THEN [t EXCEPT !.snap = <<>>, !.pc = "goal"]
           ELSE [t EXCEPT !.snap = conversationHistory', !.pc = "b64b"]]
    /\ UNCHANGED <<waitingForAIResponse,
                   initializedConversation, transcribing, conversationFinished,
                   currentGoal, gptHistory, goalTracking, policy, recapResult,
                   chatContext, recaps, nextId, epoch, budget>>

\* blobToBase64 of line 204 resolves: history.set, then line 210-219 or,
\* when the goal check is skipped, the spread of line 227
AppendAssistantTurn(id) ==
    LET t == tasks[id] IN
    /\ t.pc = "b64a"
    /\ history' = Append(t.snap, Turn("assistant", id, t.message))
    /\ tasks' = [tasks EXCEPT ![id] =
           IF ~t.hasMessage /\ isCheckConversationGoal
           THEN [t EXCEPT !.snap = <<>>, !.pc = "goal"]
           ELSE [t EXCEPT !.snap = conversationHistory, !.pc = "b64b"]]
    /\ UNCHANGED <<conversationHistory, waitingForAIResponse,
                   initializedConversation, transcribing, conversationFinished,
                   currentGoal, gptHistory, goalTracking, policy, recapResult,
                   chatContext, recaps, nextId, epoch, budget>>

\* ---------------------------------------------------------- computeRecap
\* the loop of line 313-322: the indices i (0-based) of one goal's window
WindowStarts(start, last, len) ==
    LET n == Cardinality({i \in start..(last - 1) :
                             (i - start) % 2 = 0 /\ i + 1 < len})
    IN [k \in 1..n |-> start + 2 * (k - 1)]

\* StartIndex without line 370: every window starts at the first turn
StartIndex_FromZero(gt, g) == 0

\* startDialogueIndex when the loop of line 303 reaches goal g (1-based)
StartIndex(gt, g) == IF g = 1 THEN 0 ELSE gt[g - 1].lastDialogueIndex

\* _history[i], i 0-based
At(hist, i) == IF i \in 0..(Len(hist) - 1) THEN hist[i + 1] ELSE NoTurn

\* pairDialogues of goal g: line 305-323
PairDialogues(gt, hist, g) ==
    IF gt[g].hintUsed
    THEN <<>>
    ELSE LET w == WindowStarts(StartIndex(gt, g), gt[g].lastDialogueIndex, Len(hist))
         IN [k \in 1..Len(w) |-> [assistant |-> At(hist, w[k]), user |-> At(hist, w[k] + 1)]]

\* line 328-330 reads `.transcription` of both turns of every pair: a pair
\* whose assistant is _history[-1] makes computeRecap reject on the spot
WindowThrows(gt, hist) ==
    \E g \in 1..Len(gt) :
        \E k \in 1..Len(PairDialogues(gt, hist, g)) :
            PairDialogues(gt, hist, g)[k].assistant = NoTurn

\* what analyzeGoalScore may resolve to for a window of n pairs
GoalScores(n) ==
    {[coins |-> c, overall |-> o, scores |-> [k \in 1..n |-> [advancement |-> a, grammar |-> g]]] :
        c \in limits.coins, o \in limits.overalls, a \in limits.scores, g \in limits.scores}

\* the strings of line 335-356, as the sequence of their lines
Suggestion(sc) ==
    (IF sc.advancement < 80 THEN <<"advancement", "advancementExamples">> ELSE <<"">>)
    \o (IF sc.grammar < 80 THEN <<"grammar", "grammarExamples">> ELSE <<"">>)

\* GoalResult with the two weights of line 358 exchanged
GoalResult_SwappedWeights(pairs, result) ==
    [coins |-> result.coins,
     score |-> result.overall,
     history |-> [k \in 1..Len(result.scores) |->
        [assistant |-> pairs[k].assistant,
         user |-> pairs[k].user,
         suggestion |-> Suggestion(result.scores[k]),
         dialogueScore |-> result.scores[k],
         score10 |-> 500 + result.scores[k].advancement * 2
                         + result.scores[k].grammar * 3]]]

\* the .then callback of line 331-367: the RecapResult of one goal; the
\* score of line 358 is kept in tenths
GoalResult(pairs, result) ==
    [coins |-> result.coins,
     score |-> result.overall,
     history |-> [k \in 1..Len(result.scores) |->
        [assistant |-> pairs[k].assistant,
         user |-> pairs[k].user,
         suggestion |-> Suggestion(result.scores[k]),
         dialogueScore |-> result.scores[k],
         score10 |-> 500 + result.scores[k].advancement * 3
                         + result.scores[k].grammar * 2]]]

RECURSIVE SumOver(_, _, _)
SumOver(results, field, n) ==
    IF n = 0 THEN 0 ELSE SumOver(results, field, n - 1) + results[n][field]

RECURSIVE Flatten(_, _)
Flatten(results, n) ==
    IF n = 0 THEN <<>> ELSE Flatten(results, n - 1) \o results[n].history

\* line 374-382 and 439: the published value; overallScore is the quotient
\* scoreSum / goalCount, with goalTracking.length read after the join
Aggregate(results, goalCount) ==
    [coins |-> SumOver(results, "coins", Len(results)),
     scoreSum |-> SumOver(results, "score", Len(results)),
     goalCount |-> goalCount,
     history |-> Flatten(results, Len(results))]

\* computeRecap up to its first await (Promise.all, line 372)
NewRecap(id, gt, hist) ==
    [pc |-> IF WindowThrows(gt, hist) THEN "error"
            ELSE IF Len(gt) = 0 THEN "save" ELSE "scoring",
     by |-> id,
     epoch |-> epoch,
     hintUsed |-> [g \in 1..Len(gt) |-> gt[g].hintUsed],
     scored |-> {},
     scoreFailed |-> FALSE,
     persistFailed |-> FALSE,
     pairDialogues |-> [g \in 1..Len(gt) |-> PairDialogues(gt, hist, g)],
     pending |-> IF WindowThrows(gt, hist) THEN {} ELSE 1..Len(gt),
     returned |-> [g \in 1..Len(gt) |-> NULL],
     goalsResult |-> [g \in 1..Len(gt) |-> NULL],
     result |-> IF Len(gt) = 0 THEN Aggregate(<<>>, 0) ELSE NULL]

\* ------------------------------------------------ checkConversationFinished
\* IsFinishedNow with a strict turn-cap comparison
IsFinishedNow_StrictCap(check, goal, nGoals, len, maxDC) ==
    (check /\ goal >= nGoals) \/ len > 2 * maxDC

\* IsFinishedNow as the doc comment of line 128-131 has it: nothing is
\* decided unless goals are checked
IsFinishedNow_OnlyWhenChecking(check, goal, nGoals, len, maxDC) ==
    check /\ (goal >= nGoals \/ len >= 2 * maxDC)

IsFinishedNow(check, goal, nGoals, len, maxDC) ==
    (check /\ goal >= nGoals) \/ len >= 2 * maxDC

\* checkConversationFinished without the test of saveCurrentConversation
checkConversationFinished_AlwaysRecap(id, hist) ==
    IF IsFinishedNow(isCheckConversationGoal, currentGoal, chatContext.nGoals,
                     Len(hist), maxDialogueCount)
    THEN /\ conversationFinished' = TRUE
         /\ recapResult' = <<>>
         /\ recaps' = Append(recaps, NewRecap(id, goalTracking, hist))
    ELSE UNCHANGED <<conversationFinished, recapResult, recaps>>

\* line 132-146, called by task id with the stores as they are at the call
checkConversationFinished(id, hist) ==
    IF IsFinishedNow(isCheckConversationGoal, currentGoal, chatContext.nGoals,
                     Len(hist), maxDialogueCount)
    THEN /\ conversationFinished' = TRUE
         /\ IF saveCurrentConversation
            THEN /\ recapResult' = <<>>
                 /\ recaps' = Append(recaps, NewRecap(id, goalTracking, hist))
            ELSE UNCHANGED <<recapResult, recaps>>
    ELSE UNCHANGED <<conversationFinished, recapResult, recaps>>

\* ------------------------------------------------------ nextConversationGoal
\* line 122-126; goalTracking[get(currentGoal)] must exist
CanAdvance == currentGoal < Len(goalTracking)

nextConversationGoal ==
    /\ goalTracking' = [goalTracking EXCEPT
           ![currentGoal + 1].lastDialogueIndex = Len(history) - 1]
    /\ conversationHistory' =
           Append(conversationHistory, EndOfGoalItem(currentGoal + 1))
    /\ currentGoal' = currentGoal + 1

\* checkGoalProgress resolves: line 220-224, then the spread of line 227
GoalChecked(id) ==
    LET t == tasks[id] IN
    /\ t.pc = "goal"
    /\ \E passed \in BOOLEAN :
         IF passed
         THEN IF CanAdvance
              THEN /\ nextConversationGoal
                   /\ tasks' = [tasks EXCEPT ![id] =
                          [t EXCEPT !.snap = conversationHistory', !.pc = "b64b",
                                    !.passed = TRUE]]
              ELSE /\ tasks' = [tasks EXCEPT ![id] =
                          Reject([t EXCEPT !.passed = TRUE], "TypeError")]
                   /\ UNCHANGED <<goalTracking, conversationHistory, currentGoal>>
         ELSE /\ tasks' = [tasks EXCEPT ![id] =
                     [t EXCEPT !.snap = conversationHistory, !.pc = "b64b"]]
              /\ UNCHANGED <<goalTracking, conversationHistory, currentGoal>>
    /\ UNCHANGED <<history, waitingForAIResponse, initializedConversation,
                   transcribing, conversationFinished, gptHistory, policy,
                   recapResult, chatContext, recaps, nextId, epoch, budget>>

GoalCheckFail(id) ==
    LET t == tasks[id] IN
    /\ t.pc = "goal"
    /\ tasks' = [tasks EXCEPT ![id] =
           Reject([t EXCEPT !.collabFailed = TRUE], "Collaborator")]
    /\ Fault
    /\ UNCHANGED <<stores, policy, recapResult, chatContext, recaps, nextId,
                   epoch>>

\* blobToBase64 of line 231 resolves: line 226-239, and for the reply of
\* initializeConversationBot the continuation of its await, line 118
FinishBotReply(id) ==
    LET t == tasks[id] IN
    /\ t.pc = "b64b"
    /\ conversationHistory' = Append(t.snap, ChatItem("assistant", id, t.message))
    /\ checkConversationFinished(id, history)
    /\ waitingForAIResponse' = FALSE
    /\ initializedConversation' =
           IF t.kind = "init" THEN TRUE ELSE initializedConversation
    /\ tasks' = [tasks EXCEPT ![id] =
           [t EXCEPT !.snap = <<>>, !.pc = "done", !.outcome = "ok",
                     !.passed = FALSE]]
    /\ UNCHANGED <<history, transcribing, currentGoal, gptHistory, goalTracking,
                   policy, chatContext, nextId, epoch, budget>>

\* ------------------------------------------------ initializeConversationBot
\* line 102-115 and botReply up to its first await
initializeConversationBot ==
    /\ CanIssue
    /\ gptHistory' = gptHistory \o <<Msg("user", "prompt"), Msg("assistant", "introJSON")>>
    /\ goalTracking' = goalTracking \o [g \in 1..chatContext.nGoals |-> GoalEntry(g)]
    /\ waitingForAIResponse' = TRUE
    /\ tasks' = [tasks EXCEPT ![nextId] =
           BeginBotReply([NoTask EXCEPT !.kind = "init", !.epoch = epoch,
                                        !.outcome = "pending"],
                         chatContext.intro)]
    /\ nextId' = nextId + 1
    /\ UNCHANGED <<history, conversationHistory, initializedConversation,
                   transcribing, conversationFinished, currentGoal, policy,
                   recapResult, chatContext, recaps, epoch, budget>>

\* ----------------------------------------------------------- revealGoalHint
\* revealGoalHint with the display history written before the GoalEntry
revealGoalHint_AppendFirst ==
    /\ "hint" \in limits.kinds
    /\ events < limits.events
    /\ events' = events + 1
    /\ conversationHistory' = Append(conversationHistory, HintItem(currentGoal))
    /\ IF CanAdvance
       THEN /\ goalTracking' = [goalTracking EXCEPT ![currentGoal + 1].hintUsed = TRUE]
            /\ hintOutcome' = "ok"
       ELSE /\ hintOutcome' = "TypeError"
            /\ UNCHANGED goalTracking
    /\ UNCHANGED <<history, waitingForAIResponse, initializedConversation,
                   transcribing, conversationFinished, currentGoal, gptHistory,
                   policy, recapResult, chatContext, tasks, recaps, nextId, epoch,
                   limits>>

\* line 242-251: `goalTracking[get(currentGoal)].hintUsed = true` throws a
\* TypeError when the entry does not exist, which rejects the promise before
\* the display history is touched
revealGoalHint ==
    /\ "hint" \in limits.kinds
    /\ events < limits.events
    /\ events' = events + 1
    /\ IF CanAdvance
       THEN /\ goalTracking' = [goalTracking EXCEPT ![currentGoal + 1].hintUsed = TRUE]
            /\ conversationHistory' = Append(conversationHistory, HintItem(currentGoal))
            /\ hintOutcome' = "ok"
       ELSE /\ hintOutcome' = "TypeError"
            /\ UNCHANGED <<goalTracking, conversationHistory>>
    /\ UNCHANGED <<history, waitingForAIResponse, initializedConversation,
                   transcribing, conversationFinished, currentGoal, gptHistory,
                   policy, recapResult, chatContext, tasks, recaps, nextId, epoch,
                   limits>>

\* ---------------------------------------------------------- submitUserReply
\* line 253-269, up to the await of transcribe; a null recording is a no-op
submitUserReply ==
    \E audioRecording \in {NULL, "recording"} :
       IF audioRecording = NULL
       THEN UNCHANGED vars
       ELSE /\ CanIssue
            /\ transcribing' = TRUE
            /\ conversationHistory' =
                   Append(conversationHistory, ChatItem("user", nextId, NULL))
            /\ tasks' = [tasks EXCEPT ![nextId] =
                   [NoTask EXCEPT !.kind = "submit", !.epoch = epoch,
                                  !.outcome = "pending", !.pc = "transcribe",
                                  !.targetIndex = Len(conversationHistory)]]
            /\ nextId' = nextId + 1
            /\ UNCHANGED <<history, waitingForAIResponse, initializedConversation,
                           conversationFinished, currentGoal, gptHistory,
                           goalTracking, policy, recapResult, chatContext,
                           recaps, epoch, budget>>

\* FillTranscription that takes targetIndex for the length before the append
FillTranscription_OffByOne(items, targetIndex, transcription) ==
    [i \in 1..Len(items) |->
        IF i = targetIndex
        THEN [items[i] EXCEPT !.transcription = transcription]
        ELSE items[i]]

\* `i === targetIndex ? {...v, chat: {...v.chat!, transcription}} : v`
FillTranscription(items, targetIndex, transcription) ==
    [i \in 1..Len(items) |->
        IF i - 1 = targetIndex
        THEN [items[i] EXCEPT !.transcription = transcription]
        ELSE items[i]]

\* transcribe resolves: line 270-287; botReply() is not awaited, so
\* submitUserReply returns when botReply reaches its first await
Transcribed(id) ==
    LET t == tasks[id] IN
    /\ t.pc = "transcribe"
    /\ conversationHistory' =
           FillTranscription(conversationHistory, t.targetIndex, UserText)
    /\ history' = Append(history, Turn("user", id, UserText))
    /\ gptHistory' = Append(gptHistory, Msg("user", UserText))
    /\ transcribing' = FALSE
    /\ waitingForAIResponse' = TRUE
    /\ tasks' = [tasks EXCEPT ![id] = BeginBotReply([t EXCEPT !.outcome = "ok"], "")]
    /\ UNCHANGED <<initializedConversation, conversationFinished, currentGoal,
                   goalTracking, policy, recapResult, chatContext, recaps,
                   nextId, epoch, budget>>

TranscribeFail(id) ==
    LET t == tasks[id] IN
    /\ t.pc = "transcribe"
    /\ tasks' = [tasks EXCEPT ![id] =
           [t EXCEPT !.pc = "error", !.err = "Collaborator",
                     !.outcome = "error", !.collabFailed = TRUE]]
    /\ Fault
    /\ UNCHANGED <<stores, policy, recapResult, chatContext, recaps, nextId,
                   epoch>>

\* ----------------------------------------------- computeRecap, after line 372
Recaps == 1..Len(recaps)

\* ScoreResolved with the results collected by `goalsResult.push(...)`, in
\* the order in which the scoring calls complete
ScoreResolved_Push(r, g) ==
    LET rec == recaps[r] IN
    /\ rec.pc = "scoring"
    /\ g \in rec.pending
    /\ \E result \in GoalScores(Len(rec.pairDialogues[g])) :
         LET slot == Len(rec.goalsResult) - Cardinality(rec.pending) + 1
             goalsResult == [rec.goalsResult EXCEPT
                                ![slot] = GoalResult(rec.pairDialogues[g], result)]
             returned == [rec.returned EXCEPT ![g] = result]
             pending == rec.pending \ {g}
         IN recaps' = [recaps EXCEPT ![r] =
                IF pending = {}
                THEN [rec EXCEPT !.goalsResult = goalsResult, !.pending = {},
                                 !.returned = returned,
                                 !.scored = rec.scored \cup {g},
                                 !.pc = "save",
                                 !.result = Aggregate(goalsResult, Len(goalTracking))]
                ELSE [rec EXCEPT !.goalsResult = goalsResult, !.pending = pending,
                                 !.returned = returned,
                                 !.scored = rec.scored \cup {g}]]
    /\ UNCHANGED <<stores, policy, recapResult, chatContext, tasks, nextId,
                   epoch, budget>>

\* analyzeGoalScore of goal g resolves: the .then callback, and when it was
\* the last one the join of line 372, line 374-382 and the call of line 410
ScoreResolved(r, g) ==
    LET rec == recaps[r] IN
    /\ rec.pc = "scoring"
    /\ g \in rec.pending
    /\ \E result \in GoalScores(Len(rec.pairDialogues[g])) :
         LET goalsResult == [rec.goalsResult EXCEPT
                                ![g] = GoalResult(rec.pairDialogues[g], result)]
             returned == [rec.returned EXCEPT ![g] = result]
             pending == rec.pending \ {g}
         IN recaps' = [recaps EXCEPT ![r] =
                IF pending = {}
                THEN [rec EXCEPT !.goalsResult = goalsResult, !.pending = {},
                                 !.returned = returned,
                                 !.scored = rec.scored \cup {g},
                                 !.pc = "save",
                                 !.result = Aggregate(goalsResult, Len(goalTracking))]
                ELSE [rec EXCEPT !.goalsResult = goalsResult, !.pending = pending,
                                 !.returned = returned,
                                 !.scored = rec.scored \cup {g}]]
    /\ UNCHANGED <<stores, policy, recapResult, chatContext, tasks, nextId,
                   epoch, budget>>

\* ScoreFail with the join made by Promise.allSettled: the failed call counts
\* as finished, with nothing to add
ScoreFail_AllSettled(r, g) ==
    LET rec == recaps[r] IN
    /\ rec.pc = "scoring"
    /\ g \in rec.pending
    /\ LET goalsResult == [rec.goalsResult EXCEPT
                               ![g] = [coins |-> 0, score |-> 0, history |-> <<>>]]
           pending == rec.pending \ {g}
       IN recaps' = [recaps EXCEPT ![r] =
              IF pending = {}
              THEN [rec EXCEPT !.goalsResult = goalsResult, !.pending = {},
                               !.scored = rec.scored \cup {g},
                               !.scoreFailed = TRUE, !.pc = "save",
                               !.result = Aggregate(goalsResult, Len(goalTracking))]
              ELSE [rec EXCEPT !.goalsResult = goalsResult, !.pending = pending,
                               !.scored = rec.scored \cup {g},
                               !.scoreFailed = TRUE]]
    /\ ScoringFault
    /\ UNCHANGED <<stores, policy, recapResult, chatContext, tasks, nextId,
                   epoch>>

\* analyzeGoalScore of goal g rejects: Promise.all rejects
ScoreFail(r, g) ==
    LET rec == recaps[r] IN
    /\ rec.pc = "scoring"
    /\ g \in rec.pending
    /\ recaps' = [recaps EXCEPT ![r] =
           [rec EXCEPT !.pc = "error", !.pending = {}, !.scoreFailed = TRUE]]
    /\ ScoringFault
    /\ UNCHANGED <<stores, policy, recapResult, chatContext, tasks, nextId,
                   epoch>>

\* RecapSaved inside a try/catch that logs the failure and goes on to the
\* lesson-progress update
RecapSaved_IgnoresFailure(r) ==
    LET rec == recaps[r] IN
    /\ rec.pc = "save"
    /\ \E outcome \in PersistenceOutcomes :
         /\ recaps' = [recaps EXCEPT ![r] =
                IF outcome = "resolved"
                THEN [rec EXCEPT !.pc = "update"]
                ELSE [rec EXCEPT !.pc = "update", !.persistFailed = TRUE]]
         /\ IF outcome = "resolved" THEN UNCHANGED budget ELSE PersistenceFault
    /\ UNCHANGED <<stores, policy, recapResult, chatContext, tasks, nextId,
                   epoch>>

\* the RECAP_CONVERSATION_QUIZ mutation settles: line 410-421
RecapSaved(r) ==
    LET rec == recaps[r] IN
    /\ rec.pc = "save"
    /\ \E outcome \in PersistenceOutcomes :
         /\ recaps' = [recaps EXCEPT ![r] =
                IF outcome = "resolved"
                THEN [rec EXCEPT !.pc = "update"]
                ELSE [rec EXCEPT !.pc = "error", !.persistFailed = TRUE]]
         /\ IF outcome = "resolved" THEN UNCHANGED budget ELSE PersistenceFault
    /\ UNCHANGED <<stores, policy, recapResult, chatContext, tasks, nextId,
                   epoch>>

\* ProgressUpdated that also closes the conversation locally, clearing the
\* transcript (the commented-out completeConversationLocal of line 433-437)
ProgressUpdated_ClearsTranscript(r) ==
    LET rec == recaps[r] IN
    /\ rec.pc = "update"
    /\ \E outcome \in PersistenceOutcomes :
         IF outcome = "resolved"
         THEN /\ recapResult' = <<rec.result>>
              /\ history' = <<>>
              /\ recaps' = [recaps EXCEPT ![r] = [rec EXCEPT !.pc = "done"]]
              /\ UNCHANGED budget
         ELSE /\ recaps' = [recaps EXCEPT ![r] =
                     [rec EXCEPT !.pc = "error", !.persistFailed = TRUE]]
              /\ UNCHANGED <<recapResult, history>>
              /\ PersistenceFault
    /\ UNCHANGED <<conversationHistory, waitingForAIResponse,
                   initializedConversation, transcribing, conversationFinished,
                   currentGoal, gptHistory, goalTracking, policy, chatContext,
                   tasks, nextId, epoch>>

\* the UPDATE_LESSON_PROGRESS mutation settles: line 421-439
ProgressUpdated(r) ==
    LET rec == recaps[r] IN
    /\ rec.pc = "update"
    /\ \E outcome \in PersistenceOutcomes :
         IF outcome = "resolved"
         THEN /\ recapResult' = <<rec.result>>
              /\ recaps' = [recaps EXCEPT ![r] = [rec EXCEPT !.pc = "done"]]
              /\ UNCHANGED budget
         ELSE /\ recaps' = [recaps EXCEPT ![r] =
                     [rec EXCEPT !.pc = "error", !.persistFailed = TRUE]]
              /\ UNCHANGED recapResult
              /\ PersistenceFault
    /\ UNCHANGED <<stores, policy, chatContext, tasks, nextId, epoch>>

\* ------------------------------------------------------------------ Next
Next ==
    \/ Configure
    \/ resetConversationData
    \/ initializeConversationBot
    \/ submitUserReply
    \/ revealGoalHint
    \/ \E id \in Ids : Transcribed(id)
    \/ \E id \in Ids : TranscribeFail(id)
    \/ \E id \in Ids : ChatRespond(id)
    \/ \E id \in Ids : AdaptOk(id)
    \/ \E id \in Ids : AdaptFail(id)
    \/ \E id \in Ids : SynthOk(id)
    \/ \E id \in Ids : SynthFail(id)
    \/ \E id \in Ids : AppendAssistantTurn(id)
    \/ \E id \in Ids : GoalChecked(id)
    \/ \E id \in Ids : GoalCheckFail(id)
    \/ \E id \in Ids : FinishBotReply(id)
    \/ \E r \in Recaps, g \in 1..(2 * MaxGoals) : ScoreResolved(r, g)
    \/ \E r \in Recaps, g \in 1..(2 * MaxGoals) : ScoreFail(r, g)
    \/ \E r \in Recaps : RecapSaved(r)
    \/ \E r \in Recaps : ProgressUpdated(r)

Spec == Init /\ [][Next]_vars

\* ================================================================ claims
\* the step in which task id issues its operation
Issues(id) == tasks[id].pc = "idle" /\ tasks'[id].pc # "idle"

\* the step in which the bot reply of task id completes (line 226-239)
Completes(id) == tasks[id].pc = "b64b" /\ tasks'[id].pc = "done"

\* the turns the bot reply of task id has put in the two histories
ReplyTurns(id) ==
    {i \in 1..Len(history) :
        history[i].role = "assistant" /\ history[i].audioURL = id}

ReplyItems(id) ==
    {i \in 1..Len(conversationHistory) :
        /\ conversationHistory[i].type = "chat"
        /\ conversationHistory[i].role = "assistant"
        /\ conversationHistory[i].audioURL = id}

\* C1: one Produce Bot Reply makes at most 6 chat-completion calls
\* (1 initial + 5 retries), whatever the responses are.
C1_AtMostSixChatCalls ==
    \A id \in Ids : tasks[id].chatCalls <= MaxRetry + 1

\* C2: when chat-completion has returned malformed JSON 6 times in a row
\* within one reply, the reply has ended with the bot-reply-failed error, its
\* attempt counter stands at exactly 6 (six chat calls, not counting calls
\* answered by a falsy JSON value), and that reply has appended no turn to
\* the Transcript Store nor to the display history.
C2_SixMalformedAbort ==
    \A id \in Ids :
        tasks[id].badRun = MaxRetry + 1 =>
            /\ tasks[id].pc = "error"
            /\ tasks[id].err = "BotReplyFailed"
            /\ tasks[id].attempt = MaxRetry + 1
            /\ tasks[id].chatCalls - tasks[id].nulls = MaxRetry + 1
            /\ ReplyTurns(id) = {}
            /\ ReplyItems(id) = {}

C2_Witness ==
    \E id \in Ids :
        /\ tasks[id].badRun = MaxRetry + 1
        /\ tasks[id].err = "BotReplyFailed"
        /\ tasks[id].chatCalls = MaxRetry + 1

\* C3: once a collaborator other than chat-completion has failed in an
\* operation, the operation is aborted: it is in its error outcome, so it
\* makes no further chat-completion call and appends no turn.
C3_CollaboratorFailureAborts ==
    \A id \in Ids : tasks[id].collabFailed => tasks[id].pc = "error"

C5_FinishedIsTerminal ==
    [][(conversationFinished /\ epoch' = epoch) =>
          /\ conversationFinished'
          /\ \A id \in Ids : ~Issues(id)]_vars

\* C6: between two resets the Recap Computer is invoked at most once.
C6_RecapOncePerSession ==
    Cardinality({r \in 1..Len(recaps) : recaps[r].epoch = epoch}) <= 1

\* C7: the Transcript Store alternates assistant, user, assistant, ...
\* starting with an assistant turn.
C7_Alternation ==
    \A i \in 1..Len(history) :
        history[i].role = IF i % 2 = 1 THEN "assistant" ELSE "user"

\* C8: at most one top-level operation (initialize, or submit with the bot
\* reply it triggers) is in flight at a time.
C8_OneOperationInFlight ==
    Cardinality({id \in Ids : InFlight(tasks[id])}) <= 1

\* C9 as stated: while the transcription call of a submit is pending, its
\* user turn with transcription = null is in the Transcript Store.
C9_PlaceholderInTranscript ==
    \A id \in Ids :
        tasks[id].pc = "transcribe" =>
            \E i \in 1..Len(history) : history[i] = Turn("user", id, NULL)

\* C9 as amended: the step that issues a submit appends the user turn with
\* transcription = null to the display history only; the step in which the
\* transcription completes sets the transcription of the display entry at
\* the placeholder's index, adds, removes and moves no display entry, and
\* appends the user turn with its text to the Transcript Store.
C9_PlaceholderInDisplayOnly ==
    [][\A id \in Ids :
          /\ (Issues(id) /\ tasks'[id].kind = "submit") =>
                /\ conversationHistory' =
                       Append(conversationHistory, ChatItem("user", id, NULL))
                /\ tasks'[id].targetIndex = Len(conversationHistory)
                /\ tasks'[id].pc = "transcribe"
                /\ history' = history
          /\ (tasks[id].pc = "transcribe" /\ tasks'[id].pc = "chat") =>
                /\ Len(conversationHistory') = Len(conversationHistory)
                /\ \A i \in 1..Len(conversationHistory) :
                       IF i = tasks[id].targetIndex + 1
                       THEN conversationHistory'[i] =
                                [conversationHistory[i] EXCEPT
                                    !.transcription = UserText]
                       ELSE conversationHistory'[i] = conversationHistory[i]
                /\ history' = Append(history, Turn("user", id, UserText))]_vars

C9_Witness ==
    \E id \in Ids :
        /\ tasks[id].kind = "submit"
        /\ tasks[id].pc = "chat"
        /\ tasks[id].targetIndex + 1 \in 1..Len(conversationHistory)
        /\ conversationHistory[tasks[id].targetIndex + 1] =
               ChatItem("user", id, UserText)
        /\ history[Len(history)] = Turn("user", id, UserText)

\* C10: when the bot reply triggered by a submit fails, the submit
\* operation itself ends in the error outcome.
C10_ReplyFailureSurfaced ==
    \A id \in Ids :
        (tasks[id].kind = "submit" /\ tasks[id].replyStarted
                                   /\ tasks[id].pc = "error") =>
            tasks[id].outcome = "error"

\* C11: the waiting-for-bot indicator is true while a Produce Bot Reply has
\* started and has not completed successfully (at every suspension point of
\* an in-flight reply, and after a failed reply until a reset), and the step
\* that completes a reply successfully leaves it false.
C11_WaitingWhileReplying ==
    [][/\ \A id \in Ids :
             (tasks'[id].replyStarted /\ tasks'[id].epoch = epoch'
                                      /\ tasks'[id].pc # "done")
                 => waitingForAIResponse'
       /\ \A id \in Ids : Completes(id) => ~waitingForAIResponse']_vars

\* C12: from initialization until reset the GoalEntry list has exactly one
\* record per learning goal of the script, also after a repeated call of
\* initialize.
C12_OneEntryPerGoal ==
    Len(goalTracking) \in {0, chatContext.nGoals}

\* C13: the lastTurnIndex values of the GoalEntry list are non-decreasing in
\* ascending goal index order.
C13_LastIndexNonDecreasing ==
    \A g \in 1..(Len(goalTracking) - 1) :
        goalTracking[g].lastDialogueIndex <= goalTracking[g + 1].lastDialogueIndex

\* the step in which the goal-progress collaborator answers task id
GoalAnswered(id) ==
    /\ tasks[id].pc = "goal"
    /\ tasks'[id].pc # "goal"
    /\ tasks'[id].err # "Collaborator"

\* the lastTurnIndex values, entry by entry, are what they were
SameLastIndexes ==
    \A g \in 1..Len(goalTracking) :
        g <= Len(goalTracking') =>
            goalTracking'[g].lastDialogueIndex = goalTracking[g].lastDialogueIndex

\* C14: the goal-progress collaborator is called in a reply only when the
\* reply had no literal message and the check-goals flag is true; the active
\* goal advances (by one, stamping the entry of the goal) in that reply if
\* and only if the collaborator reports success; and when the check-goals
\* flag is false no step of the engine other than a reset changes the
\* active-goal index or a lastTurnIndex.
C14_GoalCheckGating ==
    [][/\ \A id \in Ids :
             tasks'[id].pc = "goal" =>
                 ~tasks'[id].hasMessage /\ isCheckConversationGoal'
       /\ \A id \in Ids :
             GoalAnswered(id) =>
                 IF tasks'[id].passed
                 THEN currentGoal' = currentGoal + 1
                 ELSE currentGoal' = currentGoal /\ SameLastIndexes
       /\ (\A id \in Ids : ~GoalAnswered(id)) /\ epoch' = epoch =>
             currentGoal' = currentGoal /\ SameLastIndexes
       /\ (~isCheckConversationGoal /\ epoch' = epoch) =>
             currentGoal' = currentGoal /\ SameLastIndexes]_vars

\* C15: after a reset every field of the session is at its initial value:
\* active goal 0, finished false, the turn cap and the two policy flags at
\* their defaults, and the transcript, the display history, the GoalEntry
\* list and the completion-history empty.
C15_ResetRestoresEveryField ==
    [][epoch' = epoch + 1 =>
          /\ currentGoal' = 0
          /\ ~conversationFinished'
          /\ maxDialogueCount' = DefaultMaxDialogueCount
          /\ isCheckConversationGoal'
          /\ saveCurrentConversation'
          /\ history' = <<>>
          /\ conversationHistory' = <<>>
          /\ goalTracking' = <<>>
          /\ gptHistory' = <<>>]_vars

\* the calls of computeRecap after this step
RecapsNext == 1..Len(recaps')

\* the step in which a call of computeRecap publishes its RecapResult
Publishes(r) == recaps[r].pc = "update" /\ recaps'[r].pc = "done"

\* the goals of a call of computeRecap, and whether it has aggregated
GoalsOf(rec) == 1..Len(rec.goalsResult)

Aggregated(rec) == rec.scored = GoalsOf(rec) /\ rec.pc # "scoring"

\* C16: the scoring calls of all goals are issued before any is waited on;
\* the recap goes on to aggregate and persist only when every scoring call
\* has finished and none has failed; a call of computeRecap in which a
\* scoring call failed ends there, with no persistence call and nothing
\* published, whichever calls completed before it.
C16_ScoringAllOrNothing ==
    [][/\ \A r \in RecapsNext :
             /\ (r > Len(recaps) /\ recaps'[r].pc = "scoring") =>
                    recaps'[r].pending = 1..Len(recaps'[r].goalsResult)
             /\ recaps'[r].pc \in {"save", "update", "done"} =>
                    /\ recaps'[r].pending = {}
                    /\ ~recaps'[r].scoreFailed
                    /\ recaps'[r].scored = GoalsOf(recaps'[r])
             /\ recaps'[r].scoreFailed => recaps'[r].pc = "error"
       /\ (recapResult' # recapResult /\ recapResult' # <<>>) =>
             \E r \in Recaps :
                 /\ Publishes(r)
                 /\ ~recaps[r].scoreFailed
                 /\ recapResult' = <<recaps[r].result>>]_vars

C16_Witness ==
    \E r \in Recaps :
        /\ recaps[r].scoreFailed
        /\ recaps[r].pc = "error"
        /\ Len(recaps[r].goalsResult) >= 2
        /\ recaps[r].scored # {}
        /\ recapResult = <<>>

RECURSIVE UnhintedPairs(_, _)
UnhintedPairs(rec, n) ==
    IF n = 0 THEN 0
    ELSE UnhintedPairs(rec, n - 1)
           + (IF rec.hintUsed[n] THEN 0 ELSE Len(rec.pairDialogues[n]))

\* C17: a goal whose hintUsed is true when the recap is computed submits an
\* empty window for scoring and contributes no pair to RecapResult.history,
\* whatever the transcript holds between its boundaries, and it is still one
\* of the goals counted in the denominator of overallScore.
C17_HintedGoalEmptyWindow ==
    \A r \in Recaps :
        /\ \A g \in 1..Len(recaps[r].hintUsed) :
               recaps[r].hintUsed[g] =>
                   /\ recaps[r].pairDialogues[g] = <<>>
                   /\ g \in recaps[r].scored =>
                          recaps[r].goalsResult[g].history = <<>>
        /\ Aggregated(recaps[r]) =>
               /\ Len(recaps[r].result.history) =
                      UnhintedPairs(recaps[r], Len(recaps[r].hintUsed))
               /\ (\E g \in GoalsOf(recaps[r]) : recaps[r].hintUsed[g]) =>
                      recaps[r].result.goalCount = Len(recaps[r].hintUsed)

RECURSIVE SumReturned(_, _, _)
SumReturned(returned, field, n) ==
    IF n = 0 THEN 0 ELSE SumReturned(returned, field, n - 1) + returned[n][field]

\* C18: for a session with at least one goal, the published RecapResult has
\* totalCoins = the sum of the coins the scoring collaborator returned over
\* all goals, and overallScore = the sum of the per-goal overall scores it
\* returned (taken as returned) divided by the number of goals.
C18_PublishedAggregate ==
    [][\A r \in Recaps :
          (Publishes(r) /\ Len(recaps[r].returned) >= 1) =>
              /\ recapResult'[1].coins =
                     SumReturned(recaps[r].returned, "coins", Len(recaps[r].returned))
              /\ recapResult'[1].scoreSum =
                     SumReturned(recaps[r].returned, "overall", Len(recaps[r].returned))
              /\ recapResult'[1].goalCount = Len(recaps[r].returned)]_vars

\* the (assistant, user) pairs of a RecapHistory
PairsOf(h) == [k \in 1..Len(h) |-> [assistant |-> h[k].assistant, user |-> h[k].user]]

RECURSIVE ConcatWindows(_, _)
ConcatWindows(windows, n) ==
    IF n = 0 THEN <<>> ELSE ConcatWindows(windows, n - 1) \o windows[n]

\* C19: RecapResult.history is the concatenation of the per-goal scored pair
\* sequences in ascending goal index order, each in transcript order,
\* whatever the order in which the scoring calls completed.
C19_HistoryInGoalOrder ==
    [][/\ \A r \in RecapsNext :
             Aggregated(recaps'[r]) =>
                 PairsOf(recaps'[r].result.history) =
                     ConcatWindows(recaps'[r].pairDialogues,
                                   Len(recaps'[r].pairDialogues))
       /\ \A r \in Recaps : Publishes(r) => recapResult' = <<recaps[r].result>>]_vars

\* the scoring call of goal 2 has completed while that of goal 1 is still
\* pending, each goal with a scored pair of its own
C19_Witness ==
    \E r \in Recaps :
        /\ recaps[r].pc = "scoring"
        /\ recaps[r].pending = {1}
        /\ Len(recaps[r].pairDialogues) >= 2
        /\ Len(recaps[r].pairDialogues[1]) = 1
        /\ Len(recaps[r].pairDialogues[2]) = 1
        /\ recaps[r].pairDialogues[1] # recaps[r].pairDialogues[2]
        /\ recaps[r].scored = {2}

\* the suggestion text the claim describes, as the sequence of its lines
ClaimedSuggestion(sc) ==
    LET adv == IF sc.advancement < 80
               THEN <<"advancement", "advancementExamples">> ELSE <<>>
        gram == IF sc.grammar < 80
                THEN <<"grammar", "grammarExamples">> ELSE <<>>
    IN IF adv \o gram = <<>> THEN <<"">> ELSE adv \o gram

\* C20: the suggestion of a scored pair holds the advancement examples
\* exactly when advancement.score < 80 and the grammar examples exactly when
\* grammar.score < 80, the blocks joined with a newline, and it is the empty
\* string when both scores are >= 80.
C20_SuggestionBlocks ==
    \A r \in Recaps :
        \A g \in recaps[r].scored :
            \A k \in 1..Len(recaps[r].goalsResult[g].history) :
                recaps[r].goalsResult[g].history[k].suggestion =
                    ClaimedSuggestion(recaps[r].goalsResult[g].history[k].dialogueScore)

\* C21: for every scored pair with sub-scores advancement and grammar in
\* 0..100 the blended score is 50 + 0.3 * advancement + 0.2 * grammar (kept
\* in tenths: 500 + 3 * advancement + 2 * grammar) and lies in [50, 100];
\* advancement = grammar = 90 gives 95.
C21_BlendedScore ==
    \A r \in Recaps :
        \A g \in recaps[r].scored :
            \A k \in 1..Len(recaps[r].goalsResult[g].history) :
                LET e == recaps[r].goalsResult[g].history[k]
                    a == recaps[r].returned[g].scores[k].advancement
                    m == recaps[r].returned[g].scores[k].grammar
                IN (a \in 0..100 /\ m \in 0..100) =>
                       /\ e.score10 = 500 + 3 * a + 2 * m
                       /\ e.score10 \in 500..1000
                       /\ (a = 90 /\ m = 90) => e.score10 = 950

C21_Witness ==
    \E r \in Recaps :
        \E g \in recaps[r].scored :
            \E k \in 1..Len(recaps[r].goalsResult[g].history) :
                /\ recaps[r].returned[g].scores[k].advancement = 100
                /\ recaps[r].returned[g].scores[k].grammar = 0
                /\ recaps[r].goalsResult[g].history[k].score10 = 800

\* C22: with the persist flag false the Recap Computer is never invoked (no
\* call of computeRecap exists and nothing is published) although the
\* conversation still finishes; with the flag true the step that ends a bot
\* reply and finishes the conversation starts the recap and, in that same
\* step, completes the reply and clears the waiting indicator, without
\* waiting for the recap to complete or fail.
C22_PersistFlagGatesRecap ==
    [][/\ ~saveCurrentConversation' => (recaps' = <<>> /\ recapResult' = <<>>)
       /\ \A id \in Ids :
             Completes(id) =>
                 /\ ~waitingForAIResponse'
                 /\ tasks'[id].outcome = "ok"
                 /\ IF /\ saveCurrentConversation
                       /\ \/ isCheckConversationGoal
                             /\ currentGoal >= chatContext.nGoals
                          \/ Len(history) >= 2 * maxDialogueCount
                    THEN /\ Len(recaps') = Len(recaps) + 1
                         /\ recaps'[Len(recaps')].by = id
                         /\ recaps'[Len(recaps')].pc \in {"scoring", "save", "error"}
                         /\ recapResult' = <<>>
                    ELSE Len(recaps') = Len(recaps)]_vars

C22_Witness ==
    /\ ~saveCurrentConversation
    /\ conversationFinished
    /\ recaps = <<>>
    /\ \E id \in Ids : tasks[id].pc = "done"

C24_NoOpWhenNotChecking ==
    [][\A id \in Ids :
          (Completes(id) /\ ~isCheckConversationGoal) =>
              /\ conversationFinished' = conversationFinished
              /\ Len(recaps') = Len(recaps)]_vars

\* a step of a call of computeRecap after its invocation
RecapStep(r) ==
    \/ recaps'[r].pc # recaps[r].pc
    \/ recaps'[r].scored # recaps[r].scored

\* C25: from its invocation to its completion or failure the Recap Computer
\* leaves the transcript, the display history, the GoalEntry list, the
\* active-goal index, the completion-history and the finished, waiting and
\* transcribing flags unchanged; it writes only the RecapResult slot.
C25_RecapWritesOnlyItsSlot ==
    [][\A r \in Recaps :
          RecapStep(r) =>
              /\ history' = history
              /\ conversationHistory' = conversationHistory
              /\ goalTracking' = goalTracking
              /\ currentGoal' = currentGoal
              /\ gptHistory' = gptHistory
              /\ conversationFinished' = conversationFinished
              /\ waitingForAIResponse' = waitingForAIResponse
              /\ transcribing' = transcribing
              /\ initializedConversation' = initializedConversation
              /\ (recapResult' # recapResult => Publishes(r))]_vars

C25_Witness ==
    \E r \in Recaps :
        /\ recaps[r].pc = "done"
        /\ recaps[r].epoch = epoch
        /\ recapResult # <<>>
        /\ Len(history) >= 3
        /\ conversationFinished

\* C26: initialization calls neither the chat-completion nor the
\* goal-progress collaborator, for every script (one with an empty intro
\* included); after a successful initialization the transcript holds exactly
\* the assistant intro, the completion-history exactly the persona prompt
\* and the synthetic intro entry, and the initialized flag is true.
C26_InitCallsNoChat ==
    [][\A id \in Ids :
          /\ tasks'[id].kind = "init" =>
                 /\ tasks'[id].chatCalls = 0
                 /\ tasks'[id].pc \notin {"chat", "adapt", "goal"}
          /\ (Completes(id) /\ tasks[id].kind = "init") =>
                 /\ history' = <<Turn("assistant", id, chatContext.intro)>>
                 /\ gptHistory' = <<Msg("user", "prompt"), Msg("assistant", "introJSON")>>
                 /\ initializedConversation']_vars

\* the step is a call of revealGoalHint
HintStep ==
    /\ "hint" \in limits.kinds
    /\ events' = events + 1
    /\ epoch' = epoch
    /\ Len(recaps') = Len(recaps)
    /\ \A r \in Recaps : ~RecapStep(r)

\* C27: advance() and revealHint() called while the GoalEntry list is empty
\* fail with an error and leave the active-goal index, the GoalEntry list
\* and the display history unchanged.
C27_NoGoalEntryFails ==
    [][goalTracking = <<>> =>
          /\ HintStep =>
                /\ hintOutcome' = "TypeError"
                /\ currentGoal' = currentGoal
                /\ goalTracking' = <<>>
                /\ conversationHistory' = conversationHistory
          /\ \A id \in Ids :
                (GoalAnswered(id) /\ tasks'[id].passed) =>
                    /\ tasks'[id].pc = "error"
                    /\ tasks'[id].err = "TypeError"
                    /\ currentGoal' = currentGoal
                    /\ goalTracking' = <<>>
                    /\ conversationHistory' = conversationHistory]_vars

C27_Witness ==
    /\ goalTracking = <<>>
    /\ hintOutcome = "TypeError"
    /\ conversationHistory # <<>>
    /\ \E id \in Ids : tasks[id].err = "TypeError" /\ tasks[id].passed

\* s is a prefix of t
IsPrefix(s, t) == Len(s) <= Len(t) /\ \A i \in 1..Len(s) : s[i] = t[i]

\* C28: between resets the Transcript Store is append-only: in every step
\* the previous transcript is a prefix of the new one.
C28_TranscriptAppendOnly ==
    [][epoch' = epoch => IsPrefix(history, history')]_vars

\* C29: when k goals have been completed (active-goal index = k) the
\* transcript length is at least 2k.
C29_TwoTurnsPerGoal ==
    Len(history) >= 2 * currentGoal

\* C30: advance() stamps lastTurnIndex of the active goal with (transcript
\* length - 1), the index of the assistant turn the reply has just produced,
\* appends exactly one goal-boundary marker to the display history,
\* increments the active-goal index by exactly 1, and changes no other
\* GoalEntry and not the transcript.
C30_AdvanceEffect ==
    [][\A id \in Ids :
          (GoalAnswered(id) /\ currentGoal' # currentGoal) =>
              /\ currentGoal' = currentGoal + 1
              /\ Len(goalTracking') = Len(goalTracking)
              /\ \A g \in 1..Len(goalTracking) :
                     goalTracking'[g] =
                         IF g = currentGoal + 1
                         THEN [goalTracking[g] EXCEPT
                                  !.lastDialogueIndex = Len(history) - 1]
                         ELSE goalTracking[g]
              /\ Len(history) >= 1
              /\ history[Len(history)] = Turn("assistant", id, tasks[id].message)
              /\ conversationHistory' =
                     Append(conversationHistory, EndOfGoalItem(currentGoal + 1))
              /\ history' = history]_vars

\* the pairs (turn i, turn i+1), (turn i+2, turn i+3), ... taken while
\* i < last and i + 1 < transcript length (indices 0-based)
RECURSIVE ClaimedWindow(_, _, _)
ClaimedWindow(i, last, hist) ==
    IF i < last /\ i + 1 < Len(hist)
    THEN <<[assistant |-> At(hist, i), user |-> At(hist, i + 1)]>>
             \o ClaimedWindow(i + 2, last, hist)
    ELSE <<>>

\* C31: when the Recap Computer is invoked, the window of every non-hinted
\* goal consists of the pairs (turn i, turn i+1) for i = startIndex,
\* startIndex+2, ... while i < lastTurnIndex and i+1 < transcript length,
\* where startIndex is 0 for the first goal and the previous goal's
\* lastTurnIndex afterwards.
C31_RecapWindows ==
    [][\A r \in RecapsNext :
          r > Len(recaps) =>
              /\ Len(recaps'[r].pairDialogues) = Len(goalTracking)
              /\ \A g \in 1..Len(goalTracking) :
                     ~goalTracking[g].hintUsed =>
                         recaps'[r].pairDialogues[g] =
                             ClaimedWindow(
                                 IF g = 1 THEN 0
                                 ELSE goalTracking[g - 1].lastDialogueIndex,
                                 goalTracking[g].lastDialogueIndex,
                                 history)]_vars

C31_Witness ==
    \E r \in Recaps :
        /\ recaps[r].epoch = epoch
        /\ Len(history) >= 5
        /\ Len(recaps[r].pairDialogues) = 2
        /\ ~recaps[r].hintUsed[2]
        /\ recaps[r].pairDialogues[1] =
               <<[assistant |-> history[1], user |-> history[2]]>>
        /\ recaps[r].pairDialogues[2] =
               <<[assistant |-> history[3], user |-> history[4]]>>

CallsGoalCheck(id) == tasks[id].pc # "goal" /\ tasks'[id].pc = "goal"

\* C33 as stated: the assistant turn is in both the transcript and the
\* display history before the goal-progress check, so the step that
\* completes a goal appends the boundary marker after the display entry of
\* the assistant turn of that reply.
C33_AssistantBeforeMarker ==
    [][\A id \in Ids :
          /\ CallsGoalCheck(id) =>
                 \E i \in 1..Len(conversationHistory') :
                     conversationHistory'[i] =
                         ChatItem("assistant", id, tasks[id].message)
          /\ (GoalAnswered(id) /\ currentGoal' # currentGoal) =>
                 /\ ReplyItems(id) # {}
                 /\ \A i \in ReplyItems(id) : i < Len(conversationHistory')]_vars

\* C33 as amended: the assistant turn is appended to the transcript before
\* the goal-progress check and to the display history only after it, so in
\* the display history the boundary marker of a goal comes right before the
\* entry of the assistant turn that completed it.
C33_MarkerBeforeAssistant ==
    [][\A id \in Ids :
          /\ CallsGoalCheck(id) =>
                 /\ Len(history') >= 1
                 /\ history'[Len(history')] =
                        Turn("assistant", id, tasks[id].message)
                 /\ conversationHistory' = conversationHistory
                 /\ ReplyItems(id) = {}
          /\ (GoalAnswered(id) /\ currentGoal' # currentGoal) =>
                 /\ ReplyItems(id) = {}
                 /\ conversationHistory' =
                        Append(conversationHistory, EndOfGoalItem(currentGoal + 1))
          /\ (Completes(id) /\ tasks[id].passed) =>
                 LET n == Len(conversationHistory') IN
                 /\ n >= 2
                 /\ conversationHistory'[n - 1].type = "endOfGoal"
                 /\ conversationHistory'[n] =
                        ChatItem("assistant", id, tasks[id].message)]_vars

C33_Witness ==
    /\ currentGoal >= 1
    /\ Len(history) >= 3
    /\ \E k \in 2..(Len(conversationHistory) - 1) :
           /\ conversationHistory[k - 1].type = "chat"
           /\ conversationHistory[k - 1].role = "user"
           /\ conversationHistory[k] = EndOfGoalItem(1)
           /\ conversationHistory[k + 1].type = "chat"
           /\ conversationHistory[k + 1].role = "assistant"
           /\ conversationHistory[k + 1].audioURL = history[Len(history)].audioURL

\* C34: in every reachable state 0 <= active-goal index <= number of
\* declared goals; the index never decreases except by reset; and it
\* increases only in the goal check of a bot reply, by exactly 1, at most
\* once per reply.
C34_GoalIndexBounded ==
    [][/\ currentGoal' \in 0..chatContext.nGoals
       /\ epoch' = epoch => currentGoal' >= currentGoal
       /\ currentGoal' > currentGoal =>
              /\ currentGoal' = currentGoal + 1
              /\ \E id \in Ids : GoalAnswered(id) /\ ~tasks[id].passed]_vars

\* the transcript indices (0-based) of the turns of goal g's window
ScoredTurns(gt, hist, g) ==
    IF gt[g].hintUsed
    THEN {}
    ELSE LET w == WindowStarts(StartIndex(gt, g), gt[g].lastDialogueIndex, Len(hist))
         IN UNION {{w[k], w[k] + 1} : k \in 1..Len(w)}

\* C35: when the Recap Computer is invoked, every pair submitted for scoring
\* is an assistant turn followed by a user turn, the windows of different
\* goals share no transcript turn, no turn at or after the last completed
\* goal's lastTurnIndex is scored, and goals never completed have empty
\* windows.
C35_ScoredPairsWellFormed ==
    [][\A r \in RecapsNext :
          r > Len(recaps) =>
              LET goals == 1..Len(goalTracking) IN
              /\ \A g \in goals :
                     \A k \in 1..Len(recaps'[r].pairDialogues[g]) :
                         /\ recaps'[r].pairDialogues[g][k].assistant.role = "assistant"
                         /\ recaps'[r].pairDialogues[g][k].user.role = "user"
              /\ \A g, h \in goals :
                     g # h => ScoredTurns(goalTracking, history, g)
                                  \cap ScoredTurns(goalTracking, history, h) = {}
              /\ currentGoal \in goals =>
                     \A g \in goals :
                         \A i \in ScoredTurns(goalTracking, history, g) :
                             i < goalTracking[currentGoal].lastDialogueIndex
              /\ \A g \in goals :
                     g > currentGoal => recaps'[r].pairDialogues[g] = <<>>]_vars

\* the step is made by an operation (transcription or bot reply of task id)
\* that was issued before the last reset
StaleStep(id) ==
    /\ InFlight(tasks[id])
    /\ tasks[id].epoch < epoch
    /\ tasks'[id] # tasks[id]

\* C36: an operation issued before resetConversationData does not modify
\* the new session: once the reset has run, a step of a transcription, bot
\* reply or recap issued before it leaves the transcript, the display
\* history, the completion-history, the active-goal index and the finished
\* and waiting flags unchanged.
C36_StaleOperationsWriteNothing ==
    [][((\E id \in Ids : StaleStep(id))
          \/ (\E r \in Recaps : recaps[r].epoch < epoch /\ RecapStep(r))) =>
              /\ history' = history
              /\ conversationHistory' = conversationHistory
              /\ gptHistory' = gptHistory
              /\ currentGoal' = currentGoal
              /\ conversationFinished' = conversationFinished
              /\ waitingForAIResponse' = waitingForAIResponse]_vars

====
